---------------------------- MODULE Spec2Model ----------------------------
(***************************************************************************)
(* A model of src/agentic_system.py: the Message/Memory records, the       *)
(* CalculatorTool (allow-list check followed by Python's eval and str),    *)
(* the scripted MockLLMProvider, and the think/act/observe steps of        *)
(* Agent.run.  Texts are TLA+ strings, read character by character with    *)
(* SubSeq, so that parsing, evaluation and formatting are computed rather  *)
(* than assumed.                                                           *)
(***************************************************************************)
EXTENDS Integers, Sequences, FiniteSets, TLC

VARIABLES
    llm,          \* Agent.llm: which LLMProvider the Agent was built with
    tools,        \* Agent.tools: the names registered in the mapping
    messages,     \* Agent.memory.messages
    pc,           \* position inside Agent.run
    response_text,\* local of run: text of the first generate call
    decision,     \* local of run: json.loads(response_text)
    tool_result,  \* local of run: text returned by execute
    runStart,     \* Len(messages) when the current/last run was entered
    runs,         \* number of run calls entered so far
    trace,        \* phases the current/last run went through, in order
    outcome,      \* how the last run ended: "none", "returned", "raised"
    calcExpr,     \* argument of a direct CalculatorTool.execute call
    calcTree,     \* the arithmetic term calcExpr was written from (or NoTree)
    calcOut,      \* what that call produced
    genA,         \* first history given to MockLLMProvider.generate
    genB,         \* second history, ending with the same message as genA
    genOut        \* the two generate results

vars == <<llm, tools, messages, pc, response_text, decision, tool_result,
          runStart, runs, trace, outcome, calcExpr, calcTree, calcOut,
          genA, genB, genOut>>

agentVars == <<llm, tools, messages, pc, response_text, decision, tool_result,
               runStart, runs, trace, outcome>>
calcVars == <<calcExpr, calcTree, calcOut>>
genVars == <<genA, genB, genOut>>

-----------------------------------------------------------------------------
(* Characters and small text helpers                                        *)

Ch(s, i) == SubSeq(s, i, i)

Digits == {"0", "1", "2", "3", "4", "5", "6", "7", "8", "9"}

DigitVal(c) == CHOOSE k \in 0..9 : Ch("0123456789", k + 1) = c

DigitChr(k) == Ch("0123456789", k + 1)

Abs(x) == IF x < 0 THEN -x ELSE x

RECURSIVE NatStr(_)
NatStr(n) == IF n < 10 THEN DigitChr(n) ELSE NatStr(n \div 10) \o DigitChr(n % 10)

\* str(int)
IntStr(n) == IF n < 0 THEN "-" \o NatStr(-n) ELSE NatStr(n)

\* s.startswith(p)
StartsWith(s, p) == Len(s) >= Len(p) /\ SubSeq(s, 1, Len(p)) = p

\* p in s
Contains(s, p) == \E i \in 1..(Len(s) - Len(p) + 1) : SubSeq(s, i, i + Len(p) - 1) = p

-----------------------------------------------------------------------------
(* Python values reachable from the allow-listed characters.                *)
(*                                                                          *)
(* An int is n (d = 1).  A float is the double that stands for the rational *)
(* n/d (lowest terms): err = 0 when the double is exactly n/d, err = 1 when *)
(* it is the double nearest n/d (one correctly rounded step from exact      *)
(* operands), err = 2 when rounding errors of earlier steps went into it.   *)
(* neg is the sign bit of a float zero.  Magnitudes are kept within         *)
(* IntCap; an evaluation that leaves that range, or whose outcome depends   *)
(* on the accumulated rounding error, is reported as "unmodelled" and such  *)
(* expressions are left out of the input sets.                              *)

IntCap == 20000

IntV(n) == [t |-> "int", n |-> n, d |-> 1, err |-> 0, neg |-> FALSE]
FloatV(n, d, err, neg) == [t |-> "float", n |-> n, d |-> d, err |-> err,
                           neg |-> (n = 0 /\ neg)]
TupleV == [t |-> "tuple", n |-> 0, d |-> 1, err |-> 0, neg |-> FALSE]
EllipsisV == [t |-> "ellipsis", n |-> 0, d |-> 1, err |-> 0, neg |-> FALSE]

Val(v) == [r |-> "val", v |-> v, e |-> "", m |-> ""]
Exc(e, m) == [r |-> "exc", v |-> TupleV, e |-> e, m |-> m]
Unmodelled == [r |-> "unmodelled", v |-> TupleV, e |-> "", m |-> ""]

IsNum(v) == v.t \in {"int", "float"}

RECURSIVE GCD(_, _)
GCD(a, b) == IF b = 0 THEN a ELSE GCD(b, a % b)

RECURSIVE IsDyadic(_)
IsDyadic(d) == IF d = 1 THEN TRUE ELSE IF d % 2 = 0 THEN IsDyadic(d \div 2) ELSE FALSE

\* The int n, if the model can hold it.
MkInt(n) == IF Abs(n) > IntCap THEN Unmodelled ELSE Val(IntV(n))

\* The float for the rational n/d (d > 0), computed from operands whose
\* largest err is inErr; neg is the sign of the result should it be zero.
MkFloat(n, d, inErr, neg) ==
    LET g == GCD(Abs(n), d)
        rn == n \div g
        rd == d \div g
    IN  IF Abs(rn) > IntCap \/ rd > IntCap THEN Unmodelled
        ELSE IF inErr > 0 THEN Val(FloatV(rn, rd, 2, neg))
        ELSE Val(FloatV(rn, rd, IF IsDyadic(rd) THEN 0 ELSE 1, neg))

MaxErr(a, b) == IF a.err > b.err THEN a.err ELSE b.err

IsNegative(v) == v.n < 0 \/ (v.n = 0 /\ v.neg)

\* floor(n/d) for d > 0
FloorDiv(n, d) == IF n >= 0 THEN n \div d ELSE -((-n + d - 1) \div d)

RECURSIVE PowNat(_, _)
\* b ** e for e >= 0, or IntCap + 1 once the magnitude leaves the model
PowNat(b, e) ==
    IF e = 0 THEN 1
    ELSE LET p == PowNat(b, e - 1)
         IN  IF Abs(p) > IntCap THEN IntCap + 1
             ELSE IF Abs(p) * Abs(b) > IntCap THEN IntCap + 1 ELSE p * b

TypeErr == Exc("TypeError", "unsupported operand type(s)")
ZeroDiv == Exc("ZeroDivisionError", "division by zero")

\* a + b and a - b (sub = TRUE)
PyAddSub(a, b, sub) ==
    IF a.t = "tuple" /\ b.t = "tuple" /\ ~sub THEN Val(TupleV)
    ELSE IF ~(IsNum(a) /\ IsNum(b)) THEN TypeErr
    ELSE LET bn == IF sub THEN -b.n ELSE b.n
         IN  IF a.t = "int" /\ b.t = "int" THEN MkInt(a.n + bn)
             ELSE LET n == a.n * b.d + bn * a.d
                      az == (a.n = 0) /\ (bn = 0)
                      an == a.t = "float" /\ a.neg
                      bz == IF sub THEN ~(b.t = "float" /\ b.neg)
                                   ELSE b.t = "float" /\ b.neg
                  IN  IF n = 0 /\ ~az /\ MaxErr(a, b) > 0 THEN Unmodelled
                      ELSE MkFloat(n, a.d * b.d, MaxErr(a, b), az /\ an /\ bz)

\* fault: the product computed as a sum
PyMul_as_sum(a, b) == PyAddSub(a, b, FALSE)

\* a * b
PyMul(a, b) ==
    IF (a.t = "tuple" /\ b.t = "int") \/ (a.t = "int" /\ b.t = "tuple") THEN Val(TupleV)
    ELSE IF ~(IsNum(a) /\ IsNum(b)) THEN TypeErr
    ELSE IF a.t = "int" /\ b.t = "int" THEN MkInt(a.n * b.n)
    ELSE IF a.n = 0 \/ b.n = 0
         THEN Val(FloatV(0, 1, 0, IsNegative(a) # IsNegative(b)))
         ELSE MkFloat(a.n * b.n, a.d * b.d, MaxErr(a, b), FALSE)

\* a / b
PyTrueDiv(a, b) ==
    IF ~(IsNum(a) /\ IsNum(b)) THEN TypeErr
    ELSE IF b.n = 0 THEN (IF b.err = 2 THEN Unmodelled ELSE ZeroDiv)
    ELSE IF a.n = 0 THEN Val(FloatV(0, 1, 0, IsNegative(a) # IsNegative(b)))
    ELSE LET s == IF b.n < 0 THEN -1 ELSE 1
         IN  MkFloat(s * a.n * b.d, a.d * Abs(b.n), MaxErr(a, b), FALSE)

\* a // b
PyFloorDiv(a, b) ==
    IF ~(IsNum(a) /\ IsNum(b)) THEN TypeErr
    ELSE IF b.n = 0 THEN (IF b.err = 2 THEN Unmodelled ELSE ZeroDiv)
    ELSE LET s == IF b.n < 0 THEN -1 ELSE 1
             q == FloorDiv(s * a.n * b.d, a.d * Abs(b.n))
         IN  IF a.t = "int" /\ b.t = "int" THEN MkInt(q)
             ELSE IF MaxErr(a, b) > 0 \/ q = 0 THEN Unmodelled
             ELSE MkFloat(q, 1, 0, FALSE)

\* a ** b
PyPow(a, b) ==
    IF ~(IsNum(a) /\ IsNum(b)) THEN TypeErr
    ELSE IF a.t = "int" /\ b.t = "int"
         THEN IF b.n >= 0 THEN MkInt(PowNat(a.n, b.n))
              ELSE IF a.n = 0 THEN ZeroDiv
              ELSE LET p == PowNat(a.n, -b.n)
                   IN  IF Abs(p) > IntCap \/ ~IsDyadic(Abs(p)) THEN Unmodelled
                       ELSE MkFloat(IF p < 0 THEN -1 ELSE 1, Abs(p), 0, FALSE)
    ELSE IF b.n = 0 THEN Val(FloatV(1, 1, 0, FALSE))
    ELSE IF b.d = 1 /\ b.n > 0 /\ a.err = 0 /\ b.err = 0 /\ a.n # 0
         THEN LET pn == PowNat(a.n, b.n)
                  pd == PowNat(a.d, b.n)
              IN  IF Abs(pn) > IntCap \/ pd > IntCap THEN Unmodelled
                  ELSE MkFloat(pn, pd, 0, FALSE)
    ELSE Unmodelled

\* -a and +a
PyNeg(a) ==
    IF ~IsNum(a) THEN TypeErr
    ELSE IF a.t = "int" THEN Val(IntV(-a.n))
    ELSE Val(FloatV(-a.n, a.d, a.err, ~a.neg))

PyPos(a) == IF ~IsNum(a) THEN TypeErr ELSE Val(a)

PyBinary(op, a, b) ==
    CASE op = "+" -> PyAddSub(a, b, FALSE)
      [] op = "-" -> PyAddSub(a, b, TRUE)
      [] op = "*" -> PyMul(a, b)
      [] op = "/" -> PyTrueDiv(a, b)
      [] op = "//" -> PyFloorDiv(a, b)
      [] op = "**" -> PyPow(a, b)

-----------------------------------------------------------------------------
(* str() of a Python value                                                  *)

RECURSIVE StripFactor(_, _)
StripFactor(d, p) == IF d % p = 0 THEN StripFactor(d \div p, p) ELSE d

\* n/d has a finite decimal expansion
Terminating(d) == StripFactor(StripFactor(d, 2), 5) = 1

RECURSIVE FracDigits(_, _)
\* the decimal digits of r/d (0 <= r < d, expansion finite) after the point
FracDigits(r, d) ==
    IF r = 0 THEN ""
    ELSE DigitChr((r * 10) \div d) \o FracDigits((r * 10) % d, d)

RECURSIVE LeadingZeros(_)
LeadingZeros(s) == IF Len(s) > 0 /\ Ch(s, 1) = "0" THEN 1 + LeadingZeros(Tail(s)) ELSE 0

\* Stands for the 16 or 17 significant digits repr() gives a double that is
\* not a short decimal: the digits depend on the binary rounding and are not
\* computed; the text only says which rational the double is close to.
ApproxText(v) == "<double near " \o IntStr(v.n) \o "/" \o NatStr(v.d) \o ">"

\* repr(float): the shortest decimal text that reads back as the same double
FloatStr(v) ==
    IF v.n = 0 THEN (IF v.neg THEN "-0.0" ELSE "0.0")
    ELSE IF v.err = 2 \/ ~Terminating(v.d) THEN ApproxText(v)
    ELSE LET sign == IF v.n < 0 THEN "-" ELSE ""
             ip == Abs(v.n) \div v.d
             frac == FracDigits(Abs(v.n) % v.d, v.d)
             z == LeadingZeros(frac)
             sig == IF ip > 0 THEN Len(NatStr(ip)) + Len(frac) ELSE Len(frac) - z
         IN  IF sig > 15 THEN ApproxText(v)
             ELSE IF ip = 0 /\ z >= 4
                  THEN LET m == SubSeq(frac, z + 1, Len(frac))
                           ex == z + 1
                       IN  sign \o Ch(m, 1)
                                \o (IF Len(m) > 1 THEN "." \o Tail(m) ELSE "")
                                \o "e-" \o (IF ex < 10 THEN "0" ELSE "") \o NatStr(ex)
                  ELSE sign \o NatStr(ip) \o "." \o (IF frac = "" THEN "0" ELSE frac)

\* str(value)
PyStr(v) ==
    CASE v.t = "int" -> IntStr(v.n)
      [] v.t = "float" -> FloatStr(v)
      [] v.t = "tuple" -> "()"
      [] v.t = "ellipsis" -> "Ellipsis"

-----------------------------------------------------------------------------
(* Python's tokenizer on the allow-listed characters                        *)

Tok(k, s, v) == [k |-> k, s |-> s, v |-> v]
OpTok(s) == Tok("op", s, TupleV)

RECURSIVE DigitRun(_, _)
\* index just past the run of digits starting at i
DigitRun(s, i) == IF i <= Len(s) /\ Ch(s, i) \in Digits THEN DigitRun(s, i + 1) ELSE i

RECURSIVE DigitsVal(_, _)
\* value of a digit string on top of acc, or IntCap + 1 when it leaves the model
DigitsVal(s, acc) ==
    IF s = "" THEN acc
    ELSE IF acc > IntCap THEN IntCap + 1
    ELSE DigitsVal(Tail(s), acc * 10 + DigitVal(Head(s)))

RECURSIVE Pow10(_)
Pow10(k) == IF k = 0 THEN 1 ELSE IF k > 9 THEN IntCap + 1
            ELSE LET p == Pow10(k - 1) IN IF p > IntCap THEN IntCap + 1 ELSE 10 * p

RECURSIVE StripTrailingZeros(_)
StripTrailingZeros(s) ==
    IF Len(s) > 0 /\ Ch(s, Len(s)) = "0" THEN StripTrailingZeros(SubSeq(s, 1, Len(s) - 1))
    ELSE s

NumTok(j, v) == [ok |-> TRUE, j |-> j, tok |-> Tok("num", "", v)]
BigTok(j) == [ok |-> TRUE, j |-> j, tok |-> Tok("big", "", TupleV)]

\* an integer literal: a leading zero is allowed only when all digits are zero
IntLiteral(ipart, j, iv) ==
    IF Ch(ipart, 1) = "0" /\ \E k \in 1..Len(ipart) : Ch(ipart, k) # "0"
    THEN [ok |-> FALSE, j |-> j, tok |-> OpTok("")]
    ELSE IF iv > IntCap THEN BigTok(j)
    ELSE NumTok(j, IntV(iv))

FloatOf(j, r) == IF r.r = "val" THEN NumTok(j, r.v) ELSE BigTok(j)

\* a float literal ipart "." fpart (fpart without its trailing zeros)
FloatLiteral(j, iv, fv, den) ==
    IF iv > IntCap \/ den > IntCap \/ fv > IntCap THEN BigTok(j)
    ELSE FloatOf(j, MkFloat(iv * den + fv, den, 0, FALSE))

FloatDigits(j, ipart, fpart) ==
    FloatLiteral(j, DigitsVal(ipart, 0), DigitsVal(fpart, 0), Pow10(Len(fpart)))

\* j1 is the index after the leading digits
NumberFrom(s, i, j1) ==
    IF j1 <= Len(s) /\ Ch(s, j1) = "."
    THEN FloatDigits(DigitRun(s, j1 + 1), SubSeq(s, i, j1 - 1),
                     StripTrailingZeros(SubSeq(s, j1 + 1, DigitRun(s, j1 + 1) - 1)))
    ELSE IntLiteral(SubSeq(s, i, j1 - 1), j1, DigitsVal(SubSeq(s, i, j1 - 1), 0))

\* The number token starting at i (a digit, or "." followed by a digit):
\* [ok, j, tok] with j the index after it; ok = FALSE is a SyntaxError, and
\* tok.k = "big" a literal outside the model's range.
ScanNumber(s, i) == NumberFrom(s, i, DigitRun(s, i))

RECURSIVE Tokenize(_, _)

\* tok followed by the tokens r of the rest
Cons(tok, r) == [ok |-> r.ok, toks |-> <<tok>> \o r.toks]

NumberThen(s, n) ==
    IF n.ok THEN Cons(n.tok, Tokenize(s, n.j)) ELSE [ok |-> FALSE, toks |-> <<>>]

\* the token starting with character c at i (c2 and c3 follow it)
TokenAt(s, i, c, c2, c3) ==
    IF c = " " THEN Tokenize(s, i + 1)
    ELSE IF c \in Digits \/ (c = "." /\ c2 \in Digits) THEN NumberThen(s, ScanNumber(s, i))
    ELSE IF c = "." /\ c2 = "." /\ c3 = "." THEN Cons(OpTok("..."), Tokenize(s, i + 3))
    ELSE IF c = "*" /\ c2 = "*" THEN Cons(OpTok("**"), Tokenize(s, i + 2))
    ELSE IF c = "/" /\ c2 = "/" THEN Cons(OpTok("//"), Tokenize(s, i + 2))
    ELSE IF c \in {"+", "-", "*", "/", "(", ")", "."} THEN Cons(OpTok(c), Tokenize(s, i + 1))
    ELSE [ok |-> FALSE, toks |-> <<>>]

\* the tokens of s from index i on: [ok, toks]
Tokenize(s, i) ==
    IF i > Len(s) THEN [ok |-> TRUE, toks |-> <<>>]
    ELSE TokenAt(s, i, Ch(s, i),
                 IF i + 1 <= Len(s) THEN Ch(s, i + 1) ELSE "",
                 IF i + 2 <= Len(s) THEN Ch(s, i + 2) ELSE "")

-----------------------------------------------------------------------------
(* Python's expression grammar on those tokens (what eval compiles):        *)
(*   sum     : term (('+' | '-') term)*                                     *)
(*   term    : factor (('*' | '/' | '//') factor)*                          *)
(*   factor  : ('+' | '-') factor | power                                   *)
(*   power   : primary ['**' factor]                                        *)
(*   primary : atom ('(' [['*' | '**'] sum] ')')*                           *)
(*   atom    : NUMBER | '...' | '(' ')' | '(' sum ')'                       *)
(* The other operators, names, commas, brackets and keywords need           *)
(* characters that the allow-list excludes.                                 *)

POk(i, a) == [ok |-> TRUE, i |-> i, a |-> a]
PFail == [ok |-> FALSE, i |-> 0, a |-> <<>>]

TokIs(ts, i, s) == i <= Len(ts) /\ ts[i].k = "op" /\ ts[i].s = s

Const(v) == [k |-> "const", v |-> v]
BigConst == [k |-> "big"]
Unary(op, e) == [k |-> "unary", op |-> op, e |-> e]
Binary(op, l, r) == [k |-> "binary", op |-> op, l |-> l, r |-> r]
Call(f, args) == [k |-> "call", f |-> f, args |-> args]

RECURSIVE ParseSum(_, _), ParseSumRest(_, _, _), ParseTermRest(_, _, _),
          ParseFactor(_, _), ParsePrimaryRest(_, _, _), ParseSumRest_flat(_, _, _)

\* e is a parsed expression that a ")" must follow
Closed(ts, e) == IF e.ok /\ TokIs(ts, e.i, ")") THEN POk(e.i + 1, e.a) ELSE PFail

ParseAtom(ts, i) ==
    IF i > Len(ts) THEN PFail
    ELSE IF ts[i].k = "num" THEN POk(i + 1, Const(ts[i].v))
    ELSE IF ts[i].k = "big" THEN POk(i + 1, BigConst)
    ELSE IF TokIs(ts, i, "...") THEN POk(i + 1, Const(EllipsisV))
    ELSE IF TokIs(ts, i, "(")
         THEN IF TokIs(ts, i + 1, ")") THEN POk(i + 2, Const(TupleV))
              ELSE Closed(ts, ParseSum(ts, i + 1))
    ELSE PFail

\* the call acc(arg) with the argument e parsed, star = 1 for *e, 2 for **e
CallWith(ts, acc, star, e) ==
    IF e.ok /\ TokIs(ts, e.i, ")")
    THEN ParsePrimaryRest(ts, e.i + 1, Call(acc, <<[star |-> star, e |-> e.a]>>))
    ELSE PFail

ParsePrimaryRest(ts, i, acc) ==
    IF ~TokIs(ts, i, "(") THEN POk(i, acc)
    ELSE IF TokIs(ts, i + 1, ")") THEN ParsePrimaryRest(ts, i + 2, Call(acc, <<>>))
    ELSE IF TokIs(ts, i + 1, "*") THEN CallWith(ts, acc, 1, ParseSum(ts, i + 2))
    ELSE IF TokIs(ts, i + 1, "**") THEN CallWith(ts, acc, 2, ParseSum(ts, i + 2))
    ELSE CallWith(ts, acc, 0, ParseSum(ts, i + 1))

\* p ** f
PowerOf(p, f) == IF f.ok THEN POk(f.i, Binary("**", p.a, f.a)) ELSE PFail

\* p is a parsed primary: an optional '**' factor follows
PowerTail(ts, p) ==
    IF ~p.ok THEN PFail
    ELSE IF TokIs(ts, p.i, "**") THEN PowerOf(p, ParseFactor(ts, p.i + 1))
    ELSE p

\* a is a parsed atom: its trailers follow
PrimaryTail(ts, a) == IF a.ok THEN ParsePrimaryRest(ts, a.i, a.a) ELSE PFail

ParsePower(ts, i) == PowerTail(ts, PrimaryTail(ts, ParseAtom(ts, i)))

UnaryOf(op, f) == IF f.ok THEN POk(f.i, Unary(op, f.a)) ELSE PFail

ParseFactor(ts, i) ==
    IF TokIs(ts, i, "+") \/ TokIs(ts, i, "-")
    THEN UnaryOf(ts[i].s, ParseFactor(ts, i + 1))
    ELSE ParsePower(ts, i)

\* acc op f, then the rest of the term
TermWith(ts, op, acc, f) ==
    IF f.ok THEN ParseTermRest(ts, f.i, Binary(op, acc, f.a)) ELSE PFail

ParseTermRest(ts, i, acc) ==
    IF TokIs(ts, i, "*") \/ TokIs(ts, i, "/") \/ TokIs(ts, i, "//")
    THEN TermWith(ts, ts[i].s, acc, ParseFactor(ts, i + 1))
    ELSE POk(i, acc)

TermTail(ts, f) == IF f.ok THEN ParseTermRest(ts, f.i, f.a) ELSE PFail

ParseTerm(ts, i) == TermTail(ts, ParseFactor(ts, i))

SumWith_flat(ts, op, acc, f) ==
    IF f.ok THEN ParseSumRest_flat(ts, f.i, Binary(op, acc, f.a)) ELSE PFail

\* fault: a sum that also takes '*' and '/' at its own level, left to right,
\* so that "2 + 3 * 4" groups as (2 + 3) * 4
ParseSumRest_flat(ts, i, acc) ==
    IF TokIs(ts, i, "+") \/ TokIs(ts, i, "-") \/ TokIs(ts, i, "*") \/ TokIs(ts, i, "/")
    THEN SumWith_flat(ts, ts[i].s, acc, ParseFactor(ts, i + 1))
    ELSE POk(i, acc)

\* acc op t, then the rest of the sum
SumWith(ts, op, acc, t) ==
    IF t.ok THEN ParseSumRest(ts, t.i, Binary(op, acc, t.a)) ELSE PFail

ParseSumRest(ts, i, acc) ==
    IF TokIs(ts, i, "+") \/ TokIs(ts, i, "-")
    THEN SumWith(ts, ts[i].s, acc, ParseTerm(ts, i + 1))
    ELSE POk(i, acc)

SumTail(ts, t) == IF t.ok THEN ParseSumRest(ts, t.i, t.a) ELSE PFail

ParseSum(ts, i) == SumTail(ts, ParseTerm(ts, i))

NotCallable == Exc("TypeError", "object is not callable")

RECURSIVE Evaluate(_)

UnaryValue(op, x) ==
    IF x.r # "val" THEN x ELSE IF op = "-" THEN PyNeg(x.v) ELSE PyPos(x.v)

BinaryRight(op, l, r) == IF r.r # "val" THEN r ELSE PyBinary(op, l.v, r.v)

\* the right operand is evaluated only when the left one gave a value
BinaryValue(a, l) == IF l.r # "val" THEN l ELSE BinaryRight(a.op, l, Evaluate(a.r))

\* no value of these texts is callable: the call raises TypeError once the
\* argument is evaluated and unpacked
CallArg(star, x) ==
    IF x.r # "val" THEN x
    ELSE IF star = 1 /\ x.v.t # "tuple"
         THEN Exc("TypeError", "argument after * must be an iterable")
    ELSE IF star = 2 THEN Exc("TypeError", "argument after ** must be a mapping")
    ELSE NotCallable

CallValue(a, f) ==
    IF f.r # "val" THEN f
    ELSE IF a.args = <<>> THEN NotCallable
    ELSE CallArg(a.args[1].star, Evaluate(a.args[1].e))

\* the value of a compiled expression, operands left to right
Evaluate(a) ==
    CASE a.k = "const" -> Val(a.v)
      [] a.k = "big" -> Unmodelled
      [] a.k = "unary" -> UnaryValue(a.op, Evaluate(a.e))
      [] a.k = "binary" -> BinaryValue(a, Evaluate(a.l))
      [] a.k = "call" -> CallValue(a, Evaluate(a.f))

SyntaxErr == Exc("SyntaxError", "invalid syntax (<string>, line 1)")

\* the whole token sequence must be one expression
Compiled(ts, p) == IF ~p.ok \/ p.i # Len(ts) + 1 THEN SyntaxErr ELSE Evaluate(p.a)

EvalTokens(t) == IF ~t.ok THEN SyntaxErr ELSE Compiled(t.toks, ParseSum(t.toks, 1))

\* eval(expression) for a str of allow-listed characters
PyEval(expression) == EvalTokens(Tokenize(expression, 1))

-----------------------------------------------------------------------------
(* JSON values (what json.loads returns), json.dumps and json.loads         *)

JStr(s) == [t |-> "str", s |-> s, b |-> FALSE, items |-> <<>>]
\* a number keeps its literal text; b says whether it is non-zero (truthy)
JNum(s, b) == [t |-> "num", s |-> s, b |-> b, items |-> <<>>]
JBool(b) == [t |-> "bool", s |-> "", b |-> b, items |-> <<>>]
JNull == [t |-> "null", s |-> "", b |-> FALSE, items |-> <<>>]
JArr(items) == [t |-> "arr", s |-> "", b |-> FALSE, items |-> items]
\* a dict: items is a sequence of [key, val]; a later pair overrides an earlier one
JObj(items) == [t |-> "obj", s |-> "", b |-> FALSE, items |-> items]
Pair(k, v) == [key |-> k, val |-> v]

\* s[i..i+7] exists and holds none of the characters in special
PlainChunk(s, i, special) ==
    i + 7 <= Len(s) /\ \A k \in i..(i + 7) : Ch(s, k) \notin special

RECURSIVE Escape(_)
\* the body of a JSON string literal for s (json.encoder's ESCAPE_DCT);
\* eight characters at a time where none of them needs an escape
Escape(s) ==
    IF s = "" THEN ""
    ELSE IF PlainChunk(s, 1, {"\"", "\\", "\n", "\r", "\t", "\f"})
    THEN SubSeq(s, 1, 8) \o Escape(SubSeq(s, 9, Len(s)))
    ELSE LET c == Head(s)
             e == CASE c = "\"" -> "\\\""
                    [] c = "\\" -> "\\\\"
                    [] c = "\n" -> "\\n"
                    [] c = "\r" -> "\\r"
                    [] c = "\t" -> "\\t"
                    [] c = "\f" -> "\\f"
                    [] OTHER -> c
         IN  e \o Escape(Tail(s))

RECURSIVE Dumps(_), DumpsItems(_, _)
\* json.dumps(v) with the default separators ", " and ": "
Dumps(v) ==
    CASE v.t = "str" -> "\"" \o Escape(v.s) \o "\""
      [] v.t = "num" -> v.s
      [] v.t = "bool" -> IF v.b THEN "true" ELSE "false"
      [] v.t = "null" -> "null"
      [] v.t = "arr" -> "[" \o DumpsItems(v.items, FALSE) \o "]"
      [] v.t = "obj" -> "{" \o DumpsItems(v.items, TRUE) \o "}"

DumpsItems(items, keyed) ==
    IF items = <<>> THEN ""
    ELSE LET h == Head(items)
             one == IF keyed THEN "\"" \o Escape(h.key) \o "\": " \o Dumps(h.val)
                    ELSE Dumps(h)
         IN  IF Len(items) = 1 THEN one ELSE one \o ", " \o DumpsItems(Tail(items), keyed)

JOk(i, v) == [r |-> "ok", i |-> i, v |-> v]
JErr == [r |-> "err", i |-> 0, v |-> JNull]
\* text the model does not decode (an escape outside printable ASCII, a
\* three-digit exponent); such texts are left out of the response sets
JUnmodelled == [r |-> "unmodelled", i |-> 0, v |-> JNull]

At(s, i) == IF 1 <= i /\ i <= Len(s) THEN Ch(s, i) ELSE ""

\* s[i-1 : j]: the characters i..j that exist
Slice(s, i, j) == SubSeq(s, i, IF j > Len(s) THEN Len(s) ELSE j)

Whitespace == {" ", "\t", "\n", "\r"}

RECURSIVE SkipWs(_, _)
SkipWs(s, i) == IF At(s, i) \in Whitespace THEN SkipWs(s, i + 1) ELSE i

HexDigits == "0123456789abcdef"
HexUpper == "0123456789ABCDEF"
IsHex(c) == c # "" /\ (Contains(HexDigits, c) \/ Contains(HexUpper, c))
HexVal(c) == CHOOSE k \in 0..15 : Ch(HexDigits, k + 1) = c \/ Ch(HexUpper, k + 1) = c

\* the characters U+0020 .. U+005F and U+0061 .. U+007E in order
PrintableLow == " !\"#$%&'()*+,-./0123456789:;<=>?@ABCDEFGHIJKLMNOPQRSTUVWXYZ[\\]^_"
PrintableHigh == "abcdefghijklmnopqrstuvwxyz{|}~"

RECURSIVE ScanString(_, _, _)
\* json's scanstring (strict): i is the index after the opening quote; eight
\* characters at a time where none of them ends the string or needs decoding
ScanString(s, i, acc) ==
    LET c == At(s, i)
        e == At(s, i + 1)
    IN  IF PlainChunk(s, i, {"\"", "\\", "\t", "\n", "\r", "\f"})
        THEN ScanString(s, i + 8, acc \o SubSeq(s, i, i + 7))
        ELSE IF c = "" THEN JErr
        ELSE IF c = "\"" THEN JOk(i + 1, JStr(acc))
        ELSE IF c \in {"\t", "\n", "\r", "\f"} THEN JErr
        ELSE IF c # "\\" THEN ScanString(s, i + 1, acc \o c)
        ELSE IF e \in {"\"", "\\", "/"} THEN ScanString(s, i + 2, acc \o e)
        ELSE IF e = "n" THEN ScanString(s, i + 2, acc \o "\n")
        ELSE IF e = "r" THEN ScanString(s, i + 2, acc \o "\r")
        ELSE IF e = "t" THEN ScanString(s, i + 2, acc \o "\t")
        ELSE IF e = "f" THEN ScanString(s, i + 2, acc \o "\f")
        ELSE IF e = "b" THEN JUnmodelled
        ELSE IF e = "u"
             THEN IF \A k \in 2..5 : IsHex(At(s, i + k))
                  THEN LET code == 4096 * HexVal(At(s, i + 2)) + 256 * HexVal(At(s, i + 3))
                                   + 16 * HexVal(At(s, i + 4)) + HexVal(At(s, i + 5))
                       IN  IF code >= 32 /\ code <= 95
                           THEN ScanString(s, i + 6, acc \o Ch(PrintableLow, code - 31))
                           ELSE IF code >= 97 /\ code <= 126
                           THEN ScanString(s, i + 6, acc \o Ch(PrintableHigh, code - 96))
                           ELSE JUnmodelled
                  ELSE JErr
        ELSE JErr

\* the optional exponent at j2 ([eE][-+]?\d+), its digits starting at k
ExponentEnd(s, j2, k) ==
    IF At(s, j2) \in {"e", "E"} /\ At(s, k) \in Digits THEN DigitRun(s, k) ELSE j2

\* the optional fraction at j1 (\.\d+), then the exponent
FractionEnd(s, j1) ==
    IF At(s, j1) = "." /\ At(s, j1 + 1) \in Digits
    THEN ExponentEnd(s, DigitRun(s, j1 + 1),
                     IF At(s, DigitRun(s, j1 + 1) + 1) \in {"+", "-"}
                     THEN DigitRun(s, j1 + 1) + 2 ELSE DigitRun(s, j1 + 1) + 1)
    ELSE ExponentEnd(s, j1, IF At(s, j1 + 1) \in {"+", "-"} THEN j1 + 2 ELSE j1 + 1)

\* the integer part at j0 (0|[1-9]\d*), then the rest
IntegerEnd(s, i, j0) ==
    IF At(s, j0) \notin Digits THEN i
    ELSE FractionEnd(s, IF At(s, j0) = "0" THEN j0 + 1 ELSE DigitRun(s, j0))

\* json's NUMBER_RE  (-?(?:0|[1-9]\d*))(\.\d+)?([eE][-+]?\d+)?  matched at i:
\* the index after the match, or i when there is none
NumberEnd(s, i) == IntegerEnd(s, i, IF At(s, i) = "-" THEN i + 1 ELSE i)

\* the number literal s[i..j-1] whose mantissa ends before mEnd
NumberParts(s, i, j, mEnd) ==
    IF j - mEnd > 3 THEN JUnmodelled
    ELSE JOk(j, JNum(SubSeq(s, i, j - 1),
                     \E k \in i..(mEnd - 1) : Ch(s, k) \in (Digits \ {"0"})))

\* the number literal s[i..j-1] as a value
NumberValue(s, i, j) ==
    IF \E k \in i..(j - 1) : Ch(s, k) \in {"e", "E"}
    THEN NumberParts(s, i, j, CHOOSE k \in i..(j - 1) : Ch(s, k) \in {"e", "E"})
    ELSE NumberParts(s, i, j, j)

RECURSIVE ParseValue(_, _), ObjectLoop(_, _, _), ArrayLoop(_, _, _)

\* after a value of an object, at index e: "}" ends it, "," needs another key
AfterMember(s, e, pairs) ==
    IF At(s, e) = "}" THEN JOk(e + 1, JObj(pairs))
    ELSE IF At(s, e) = "," /\ At(s, SkipWs(s, e + 1)) = "\""
         THEN ObjectLoop(s, SkipWs(s, e + 1) + 1, pairs)
    ELSE JErr

MemberValue(s, acc, key, val) ==
    IF val.r # "ok" THEN val
    ELSE AfterMember(s, SkipWs(s, val.i), Append(acc, Pair(key.v.s, val.v)))

\* the key is scanned: ":" at index c, then the value
MemberColon(s, acc, key, c) ==
    IF At(s, c) # ":" THEN JErr
    ELSE MemberValue(s, acc, key, ParseValue(s, SkipWs(s, c + 1)))

MemberKey(s, acc, key) ==
    IF key.r # "ok" THEN key ELSE MemberColon(s, acc, key, SkipWs(s, key.i))

\* one "key": value pair; i is the index after the key's opening quote
ObjectLoop(s, i, acc) == MemberKey(s, acc, ScanString(s, i, ""))

ObjectAt(s, j) ==
    IF At(s, j) = "}" THEN JOk(j + 1, JObj(<<>>))
    ELSE IF At(s, j) = "\"" THEN ObjectLoop(s, j + 1, <<>>)
    ELSE JErr

\* JSONObject: i is the index after "{"
ParseObject(s, i) == ObjectAt(s, SkipWs(s, i))

\* after an element of an array, at index e: "]" ends it, "," needs another
AfterElement(s, e, items) ==
    IF At(s, e) = "]" THEN JOk(e + 1, JArr(items))
    ELSE IF At(s, e) = "," THEN ArrayLoop(s, SkipWs(s, e + 1), items)
    ELSE JErr

ElementValue(s, acc, val) ==
    IF val.r # "ok" THEN val
    ELSE AfterElement(s, SkipWs(s, val.i), Append(acc, val.v))

ArrayLoop(s, i, acc) == ElementValue(s, acc, ParseValue(s, i))

ArrayAt(s, j) ==
    IF At(s, j) = "]" THEN JOk(j + 1, JArr(<<>>)) ELSE ArrayLoop(s, j, <<>>)

\* JSONArray: i is the index after "["
ParseArray(s, i) == ArrayAt(s, SkipWs(s, i))

\* the value starting with character c at index i; n = NumberEnd(s, i)
ValueAt(s, i, c, n) ==
    IF c = "\"" THEN ScanString(s, i + 1, "")
    ELSE IF c = "{" THEN ParseObject(s, i + 1)
    ELSE IF c = "[" THEN ParseArray(s, i + 1)
    ELSE IF c = "n" /\ Slice(s, i, i + 3) = "null" THEN JOk(i + 4, JNull)
    ELSE IF c = "t" /\ Slice(s, i, i + 3) = "true" THEN JOk(i + 4, JBool(TRUE))
    ELSE IF c = "f" /\ Slice(s, i, i + 4) = "false" THEN JOk(i + 5, JBool(FALSE))
    ELSE IF n > i THEN NumberValue(s, i, n)
    ELSE IF c = "N" /\ Slice(s, i, i + 2) = "NaN" THEN JOk(i + 3, JNum("NaN", TRUE))
    ELSE IF c = "I" /\ Slice(s, i, i + 7) = "Infinity"
         THEN JOk(i + 8, JNum("Infinity", TRUE))
    ELSE IF c = "-" /\ Slice(s, i, i + 8) = "-Infinity"
         THEN JOk(i + 9, JNum("-Infinity", TRUE))
    ELSE JErr

\* scan_once: the value starting at index i
ParseValue(s, i) == ValueAt(s, i, At(s, i), NumberEnd(s, i))

\* fault: a parser that takes every text for an empty object
json_loads_lenient(s) == JOk(Len(s) + 1, JObj(<<>>))

\* nothing but whitespace may follow the value ("Extra data")
WholeText(s, v) ==
    IF v.r # "ok" THEN v
    ELSE IF SkipWs(s, v.i) # Len(s) + 1 THEN JErr
    ELSE v

\* json.loads(s): r = "err" stands for json.JSONDecodeError
json_loads(s) == WholeText(s, ParseValue(s, SkipWs(s, 1)))

\* the keys of a dict, and dict.get(key, default)
HasKey(obj, key) == \E k \in 1..Len(obj.items) : obj.items[k].key = key

DictGet(obj, key, default) ==
    IF HasKey(obj, key)
    THEN LET last == CHOOSE k \in 1..Len(obj.items) :
                        /\ obj.items[k].key = key
                        /\ \A m \in (k + 1)..Len(obj.items) : obj.items[m].key # key
         IN  obj.items[last].val
    ELSE default

\* bool(v)
Truthy(v) ==
    CASE v.t = "str" -> v.s # ""
      [] v.t = "num" -> v.b
      [] v.t = "bool" -> v.b
      [] v.t = "null" -> FALSE
      [] v.t = "arr" -> v.items # <<>>
      [] v.t = "obj" -> v.items # <<>>

\* hash(v) succeeds (lists and dicts are unhashable)
Hashable(v) == v.t \notin {"arr", "obj"}

-----------------------------------------------------------------------------
(* CalculatorTool                                                           *)

\* fault: an allow-list that also lets ";" through
allowed_chars_wide == Digits \cup {"+", "-", "*", "/", "(", ")", ".", " ", ";"}

\* set("0123456789+-*/(). ")
allowed_chars == Digits \cup {"+", "-", "*", "/", "(", ")", ".", " "}

\* `c in allowed_chars` for an element c that is hashable
InAllowed(c) == c.t = "str" /\ Len(c.s) = 1 /\ c.s \in allowed_chars

\* all(c in allowed_chars for c in expression), for whatever value the caller
\* passed: "ok" (True), "invalid" (False) or "typeerror" (the iteration or the
\* hashing of an element raised TypeError)
CheckAllowed(expression) ==
    CASE expression.t = "str" ->
            IF \A i \in 1..Len(expression.s) : Ch(expression.s, i) \in allowed_chars
            THEN "ok" ELSE "invalid"
      [] expression.t = "arr" ->
            LET bad == {i \in 1..Len(expression.items) : ~InAllowed(expression.items[i])}
                first == CHOOSE i \in bad : \A k \in bad : i <= k
            IN  IF bad = {} THEN "ok"
                ELSE IF Hashable(expression.items[first]) THEN "invalid" ELSE "typeerror"
      [] expression.t = "obj" ->
            IF \A i \in 1..Len(expression.items) :
                  LET k == expression.items[i].key IN Len(k) = 1 /\ k \in allowed_chars
            THEN "ok" ELSE "invalid"
      [] OTHER -> "typeerror"

\* fault: a handler that catches syntax errors only
ExceptSyntaxError(e) == e = "SyntaxError"

\* the classes `except Exception` catches (every exception eval, str and the
\* iteration can raise here derives from Exception)
ExceptException(e) ==
    e \in {"SyntaxError", "TypeError", "ZeroDivisionError", "ValueError",
           "OverflowError", "MemoryError", "RecursionError"}

Returned(text, evaluated) == [ret |-> text, evaluated |-> evaluated, raised |-> FALSE]

\* the try/except around the body of execute
Handled(x, evaluated) ==
    IF ExceptException(x.e) THEN Returned("Error executing calculation: " \o x.m, evaluated)
    ELSE [ret |-> "", evaluated |-> evaluated, raised |-> TRUE]

NotIterable == Exc("TypeError", "object is not iterable")
EvalArgType == Exc("TypeError", "eval() arg 1 must be a string, bytes or code object")

\* str(eval(expression)) inside the try
Evaluated(r) ==
    IF r.r = "val" THEN Returned(PyStr(r.v), TRUE)
    ELSE IF r.r = "exc" THEN Handled(r, TRUE)
    ELSE Returned("<unmodelled>", TRUE)

Checked(expression, chk) ==
    IF chk = "typeerror" THEN Handled(NotIterable, FALSE)
    ELSE IF chk = "invalid" THEN Returned("Error: Invalid characters in expression.", FALSE)
    ELSE IF expression.t = "str" THEN Evaluated(PyEval(expression.s))
    ELSE Evaluated(EvalArgType)

\* CalculatorTool.execute(expression): the text it returns, whether eval was
\* reached, and whether an exception left the method
CalculatorTool_execute(expression) == Checked(expression, CheckAllowed(expression))

-----------------------------------------------------------------------------
(* Message, Memory and MockLLMProvider                                      *)

\* Message(role, content, metadata); metadata is a set of <<key, value>>
Message(role, content, metadata) ==
    [role |-> role, content |-> content, metadata |-> metadata]

\* fault: the message put in front of the history
Memory_add_message_front(msgs, message) == <<message>> \o msgs

\* Memory.add_message
Memory_add_message(msgs, message) == Append(msgs, message)

\* Memory.get_history
Memory_get_history(msgs) == msgs

UpperCase == "ABCDEFGHIJKLMNOPQRSTUVWXYZ"
LowerCase == "abcdefghijklmnopqrstuvwxyz"

LowerChar(c) ==
    IF Contains(UpperCase, c)
    THEN Ch(LowerCase, CHOOSE k \in 1..26 : Ch(UpperCase, k) = c)
    ELSE c

RECURSIVE Lower(_)
\* str.lower() on ASCII text; eight characters at a time where none is upper case
Lower(s) ==
    IF s = "" THEN ""
    ELSE IF Len(s) >= 8 /\ \A k \in 1..8 : ~Contains(UpperCase, Ch(s, k))
    THEN SubSeq(s, 1, 8) \o Lower(SubSeq(s, 9, Len(s)))
    ELSE LowerChar(Head(s)) \o Lower(Tail(s))

\* the decision the scripted model returns for a "calculate" query
MockDecision ==
    JObj(<<Pair("thought", JStr("The user wants to calculate something. I should use the calculator tool.")),
           Pair("tool", JStr("calculator")),
           Pair("tool_input", JObj(<<Pair("expression", JStr("25 * 4"))>>))>>)

\* lines 75-89 of generate, with last_msg = messages[-1]
ScriptedReply(last_msg) ==
    IF last_msg.role = "user"
    THEN IF Contains(Lower(last_msg.content), "calculate")
         THEN Dumps(MockDecision)
         ELSE "I am a simple agent. I can help you with calculations."
    ELSE IF last_msg.role = "tool"
    THEN "The result of the calculation is " \o last_msg.content
    ELSE "I don't know what to do."

\* fault: the script applied to the first message of the history
MockLLMProvider_generate_first(msgs) == ScriptedReply(msgs[1])

\* MockLLMProvider.generate(messages), messages non-empty
MockLLMProvider_generate(msgs) == ScriptedReply(msgs[Len(msgs)])

-----------------------------------------------------------------------------
(* Agent                                                                    *)

\* the two queries of __main__ and an upper-case one
Queries == {"Hello, who are you?", "Please calculate 25 * 4 for me.", "CALCULATE 1 + 1"}

\* texts an arbitrary LLMProvider may return from generate
ResponseCandidates ==
    { "I am a simple agent. I can help you with calculations.",
      "",
      "{\"tool\": \"calculator\"",
      Dumps(MockDecision),
      "[1]",
      "{}",
      "{\"tool\": \"\"}",
      "{\"tool\": \"search\"}",
      "{\"tool\": [\"calculator\"]}",
      "{\"tool\": \"calculator\"}",
      "{\"tool\": \"calculator\", \"tool_input\": null}",
      "{\"tool\": \"calculator\", \"tool_input\": {\"expr\": \"1\"}}",
      "{\"tool\": \"calculator\", \"tool_input\": {\"expression\": 5}}",
      "{\"tool\": \"calculator\", \"tool_input\": {\"expression\": \"1 / 0\"}}" }

ResponseTexts == {t \in ResponseCandidates : json_loads(t).r # "unmodelled"}

\* what self.llm.generate(history) may return
Generate(l, msgs) ==
    IF l = "MockLLMProvider" THEN {MockLLMProvider_generate(msgs)} ELSE ResponseTexts

\* Memory is unbounded in the program; a run is entered only while its three
\* messages still fit
MaxMessages == 6

NoTree == [shape |-> "none", a |-> 0, op1 |-> "+", b |-> 0, op2 |-> "+", c |-> 0]
NotCalled == [ret |-> "", evaluated |-> FALSE, raised |-> FALSE, called |-> FALSE]

CalcIdle == calcExpr = "" /\ calcTree = NoTree /\ calcOut = NotCalled
GenIdle == genA = <<>> /\ genB = <<>> /\ genOut = <<>>
AgentIdle ==
    /\ llm = "MockLLMProvider" /\ tools = {"calculator"} /\ messages = <<>>
    /\ pc = "idle" /\ response_text = "" /\ decision = JNull /\ tool_result = ""
    /\ runStart = 0 /\ runs = 0 /\ trace = <<>> /\ outcome = "none"

\* Agent.__init__ (the Memory starts empty), for either provider and with or
\* without the calculator registered
Init ==
    /\ llm \in {"MockLLMProvider", "LLMProvider"}
    /\ tools \in {{}, {"calculator"}}
    /\ messages = <<>>
    /\ pc = "idle" /\ response_text = "" /\ decision = JNull /\ tool_result = ""
    /\ runStart = 0 /\ runs = 0 /\ trace = <<>> /\ outcome = "none"
    /\ CalcIdle /\ GenIdle

\* run ends: by return (out = "returned") or by an exception that leaves it
EndRun(msgs, event, out) ==
    /\ messages' = msgs
    /\ pc' = "idle"
    /\ outcome' = out
    /\ trace' = Append(trace, event)

\* run(user_query), line 110: the user message is appended
Agent_run(user_query) ==
    /\ pc = "idle"
    /\ Len(messages) + 3 <= MaxMessages
    /\ messages' = Memory_add_message(messages, Message("user", user_query, {}))
    /\ pc' = "think"
    /\ runStart' = Len(messages)
    /\ runs' = runs + 1
    /\ trace' = <<"user">>
    /\ outcome' = "running"
    /\ response_text' = "" /\ decision' = JNull /\ tool_result' = ""
    /\ UNCHANGED <<llm, tools>>

\* line 113: the first generate call
Think ==
    /\ pc = "think"
    /\ \E text \in Generate(llm, Memory_get_history(messages)) : response_text' = text
    /\ pc' = "decide"
    /\ trace' = Append(trace, "generate")
    /\ UNCHANGED <<llm, tools, messages, decision, tool_result, runStart, runs, outcome>>

\* fault: the tool name is not looked up in the mapping
ChooseTool_unchecked(d, tool_name) ==
    IF ~Truthy(tool_name) THEN EndRun(messages, "print", "returned")
    ELSE pc' = "act" /\ UNCHANGED <<messages, outcome, trace>>

\* line 122 with tool_name = decision.get("tool"): the tool is called, or the
\* else branch prints the response, or the test itself raises
ChooseTool(d, tool_name) ==
    IF ~Truthy(tool_name) THEN EndRun(messages, "print", "returned")
    ELSE IF ~Hashable(tool_name) THEN EndRun(messages, "raise", "raised")
    ELSE IF tool_name.t = "str" /\ tool_name.s \in tools
    THEN pc' = "act" /\ UNCHANGED <<messages, outcome, trace>>
    ELSE EndRun(messages, "print", "returned")

\* d = json.loads(response_text), or the except clause when it raised
Decided(d) ==
    IF d.r = "err"
    THEN /\ EndRun(Memory_add_message(messages, Message("assistant", response_text, {})),
                   "assistant", "returned")
         /\ UNCHANGED decision
    ELSE IF d.v.t # "obj"
    THEN EndRun(messages, "raise", "raised") /\ decision' = d.v
    ELSE ChooseTool(d.v, DictGet(d.v, "tool", JNull)) /\ decision' = d.v

\* lines 115-122 and 136-142: json.loads, the two .get calls, the test on
\* tool_name, the else branch and the except clause
Decide ==
    /\ pc = "decide"
    /\ Decided(json_loads(response_text))
    /\ UNCHANGED <<llm, tools, response_text, tool_result, runStart, runs>>

\* execute(**tool_input) binds: tool_input is a dict whose only key is the
\* parameter name
CallBinds(tool_input) ==
    /\ tool_input.t = "obj"
    /\ {tool_input.items[i].key : i \in 1..Len(tool_input.items)} = {"expression"}

\* fault: the result of the tool is not recorded before the second call
Executed_unobserved(binds, r) ==
    IF binds /\ ~r.raised
    THEN /\ tool_result' = r.ret
         /\ pc' = "respond"
         /\ trace' = Append(trace, "execute")
         /\ UNCHANGED <<messages, outcome>>
    ELSE EndRun(messages, "raise", "raised") /\ UNCHANGED tool_result

\* the call returned r, or raised before or inside execute
Executed(binds, r) ==
    IF binds /\ ~r.raised
    THEN /\ tool_result' = r.ret
         /\ pc' = "observe"
         /\ trace' = Append(trace, "execute")
         /\ UNCHANGED <<messages, outcome>>
    ELSE EndRun(messages, "raise", "raised") /\ UNCHANGED tool_result

ExecuteWith(tool_input) ==
    Executed(CallBinds(tool_input),
             CalculatorTool_execute(DictGet(tool_input, "expression", JNull)))

\* lines 123-127: the tool is looked up and executed
Act ==
    /\ pc = "act"
    /\ ExecuteWith(DictGet(decision, "tool_input", JObj(<<>>)))
    /\ UNCHANGED <<llm, tools, response_text, decision, runStart, runs>>

\* line 130: the tool message is appended
Observe ==
    /\ pc = "observe"
    /\ LET tool_name == DictGet(decision, "tool", JNull).s
       IN  messages' = Memory_add_message(messages,
                          Message("tool", tool_result, {<<"tool", tool_name>>}))
    /\ pc' = "respond"
    /\ trace' = Append(trace, "tool")
    /\ UNCHANGED <<llm, tools, response_text, decision, tool_result, runStart, runs, outcome>>

\* lines 133-135: the second generate call; its text is appended unparsed
Respond ==
    /\ pc = "respond"
    /\ \E final_response \in Generate(llm, Memory_get_history(messages)) :
          /\ messages' = Memory_add_message(messages, Message("assistant", final_response, {}))
    /\ pc' = "idle"
    /\ outcome' = "returned"
    /\ trace' = trace \o <<"generate", "assistant">>
    /\ UNCHANGED <<llm, tools, response_text, decision, tool_result, runStart, runs>>

Next ==
    \/ \E q \in Queries : Agent_run(q) /\ UNCHANGED <<calcVars, genVars>>
    \/ Think /\ UNCHANGED <<calcVars, genVars>>
    \/ Decide /\ UNCHANGED <<calcVars, genVars>>
    \/ Act /\ UNCHANGED <<calcVars, genVars>>
    \/ Observe /\ UNCHANGED <<calcVars, genVars>>
    \/ Respond /\ UNCHANGED <<calcVars, genVars>>

Spec == Init /\ [][Next]_vars

-----------------------------------------------------------------------------
(* CalculatorTool.execute called on its own                                 *)
(*                                                                          *)
(* The expression is either the text of a small arithmetic term (operands,  *)
(* the four operators, parentheses where the grouping needs them) or any    *)
(* short text over an alphabet that holds allow-listed characters and ";".  *)

MaxExprLen == 3
MaxOperand == 4

ExprAlphabet == {"0", "1", "2", "3", "+", "-", "*", "/", "(", ")", ".", " ", ";"}

\* the texts of S, and those with one more character
Extend(S) == S \cup {t \o c : t \in S, c \in ExprAlphabet}

RECURSIVE Texts(_)
\* the texts over ExprAlphabet of length at most n
Texts(n) == IF n = 0 THEN {""} ELSE Extend(Texts(n - 1))

\* the expressions the specification of the tool gives as examples
ExampleTexts ==
    {"25 * 4", "2 + 3 * 4", "2+2; rm", "2 +", "", "1 (2)", "1 / 0", "1 / 3", "4 / 2"}

\* the evaluation of e stays within the values the model computes
Modelled(e) ==
    \/ \E i \in 1..Len(e) : Ch(e, i) \notin allowed_chars
    \/ PyEval(e).r # "unmodelled"

Operands == (0..MaxOperand) \cup {25}
Operators == {"+", "-", "*", "/"}

\* a term: a | a op1 b | (a op1 b) op2 c | a op1 (b op2 c)
Tree(shape, a, op1, b, op2, c) ==
    [shape |-> shape, a |-> a, op1 |-> op1, b |-> b, op2 |-> op2, c |-> c]

Trees ==
    {Tree("leaf", a, "+", 0, "+", 0) : a \in Operands}
    \cup {Tree("bin", a, op1, b, "+", 0) : a \in Operands, op1 \in Operators, b \in Operands}
    \cup {Tree(sh, a, op1, b, op2, c) :
            sh \in {"left", "right"}, a \in Operands, op1 \in Operators,
            b \in Operands, op2 \in Operators, c \in Operands}

\* standard precedence: '*' and '/' bind tighter than '+' and '-'
Prec(op) == IF op \in {"*", "/"} THEN 2 ELSE 1

Infix(l, op, r) == l \o " " \o op \o " " \o r

Paren(e) == "(" \o e \o ")"

\* the text of a term: parentheses only where precedence and left-to-right
\* grouping would otherwise read it differently
Render(t) ==
    CASE t.shape = "leaf" -> NatStr(t.a)
      [] t.shape = "bin" -> Infix(NatStr(t.a), t.op1, NatStr(t.b))
      [] t.shape = "left" ->
            Infix(IF Prec(t.op1) < Prec(t.op2)
                  THEN Paren(Infix(NatStr(t.a), t.op1, NatStr(t.b)))
                  ELSE Infix(NatStr(t.a), t.op1, NatStr(t.b)),
                  t.op2, NatStr(t.c))
      [] t.shape = "right" ->
            Infix(NatStr(t.a), t.op1,
                  IF Prec(t.op2) <= Prec(t.op1)
                  THEN Paren(Infix(NatStr(t.b), t.op2, NatStr(t.c)))
                  ELSE Infix(NatStr(t.b), t.op2, NatStr(t.c)))

InitCalc ==
    /\ AgentIdle /\ GenIdle
    /\ calcOut = NotCalled
    /\ \/ calcTree \in Trees /\ calcExpr = Render(calcTree)
       \/ calcTree = NoTree /\ calcExpr \in Texts(MaxExprLen) \cup ExampleTexts
    /\ Modelled(calcExpr)

Called(r) ==
    [ret |-> r.ret, evaluated |-> r.evaluated, raised |-> r.raised, called |-> TRUE]

\* calc_tool.execute(expression=calcExpr)
Execute ==
    /\ ~calcOut.called
    /\ calcOut' = Called(CalculatorTool_execute(JStr(calcExpr)))
    /\ UNCHANGED <<calcExpr, calcTree>>

NextCalc == Execute /\ UNCHANGED <<agentVars, genVars>>

SpecCalc == InitCalc /\ [][NextCalc]_vars

-----------------------------------------------------------------------------
(* MockLLMProvider.generate called on its own, on two histories that end    *)
(* with the same message                                                    *)

MaxPrefix == 2

PrefixMessages ==
    { Message("user", "Please calculate 25 * 4 for me.", {}),
      Message("tool", "7", {<<"tool", "calculator">>}),
      Message("assistant", "Hello", {}) }

\* the histories of S, and those with one more message
ExtendHistory(S) == S \cup {Append(h, m) : h \in S, m \in PrefixMessages}

RECURSIVE Histories(_)
\* the histories over PrefixMessages of length at most n
Histories(n) == IF n = 0 THEN {<<>>} ELSE ExtendHistory(Histories(n - 1))

\* contents with and without "calculate" in some mix of cases
ContentsWithCalculate ==
    {"Please calculate 25 * 4 for me.", "CALCULATE 1 + 1", "reCalculated", "calculate"}
ContentsWithoutCalculate ==
    {"Hello, who are you?", "", "calc 25 * 4", "calculat e 1"}
ToolContents == {"100", "Error: Invalid characters in expression.", ""}
OtherRoles == {"assistant", "system"}

LastMessages ==
    {Message("user", c, {}) : c \in ContentsWithCalculate \cup ContentsWithoutCalculate}
    \cup {Message("tool", c, {<<"tool", "calculator">>}) : c \in ToolContents}
    \cup {Message(r, c, {}) : r \in OtherRoles, c \in {"calculate", "100"}}

InitGen ==
    /\ AgentIdle /\ CalcIdle
    /\ genOut = <<>>
    /\ \E m \in LastMessages : \E p, q \in Histories(MaxPrefix) :
          genA = Append(p, m) /\ genB = Append(q, m)

\* llm.generate(genA) and llm.generate(genB)
GenerateBoth ==
    /\ genOut = <<>>
    /\ genOut' = <<MockLLMProvider_generate(genA), MockLLMProvider_generate(genB)>>
    /\ UNCHANGED <<genA, genB>>

NextGen == GenerateBoth /\ UNCHANGED <<agentVars, calcVars>>

SpecGen == InitGen /\ [][NextGen]_vars

-----------------------------------------------------------------------------
(* Properties of Agent.run (under Spec)                                     *)

Last(seq) == seq[Len(seq)]

\* a run has ended and no other was entered since
RunEnded == pc = "idle" /\ outcome # "none"

\* the messages the last run appended
Appended == SubSeq(messages, runStart + 1, Len(messages))

CalculateQuery == "Please calculate 25 * 4 for me."

\* C1: with the scripted model and the calculator registered, whatever earlier
\* runs left in Memory, run("Please calculate 25 * 4 for me.") returns having
\* appended exactly the user message, the tool message "100" with metadata
\* tool = "calculator", and the assistant message "The result of the
\* calculation is 100", in this order.
C1_EndToEnd ==
    (/\ RunEnded
     /\ llm = "MockLLMProvider" /\ tools = {"calculator"}
     /\ Len(messages) > runStart
     /\ messages[runStart + 1] = Message("user", CalculateQuery, {}))
    => /\ outcome = "returned"
       /\ Appended = << Message("user", CalculateQuery, {}),
                        Message("tool", "100", {<<"tool", "calculator">>}),
                        Message("assistant", "The result of the calculation is 100", {}) >>

\* the end-to-end run happened on top of the messages of an earlier run
C1_Witness ==
    /\ RunEnded /\ llm = "MockLLMProvider" /\ tools = {"calculator"}
    /\ runStart > 0 /\ Len(messages) = runStart + 3
    /\ messages[runStart + 1].content = CalculateQuery
    /\ Last(messages).content = "The result of the calculation is 100"

\* C2: run never escalates an error to its caller, whatever text generate
\* returns and whatever tools are registered: no run ends by an exception.
C2_NeverRaises == outcome # "raised"

\* C3: Memory is append-only: empty at construction, and every step of every
\* run leaves the history it found as an unchanged prefix of the new one.
C3_AppendOnly ==
    /\ messages = <<>>
    /\ [][/\ Len(messages') >= Len(messages)
          /\ SubSeq(messages', 1, Len(messages)) = messages]_vars

\* a second run has appended to the messages of the first
C3_Witness == RunEnded /\ runs >= 2 /\ runStart >= 2 /\ Len(messages) > runStart + 1

\* first responses that are not JSON
UnparseableTexts ==
    { "I am a simple agent. I can help you with calculations.",
      "",
      "{\"tool\": \"calculator\"" }

\* what a run that took the fallback path leaves: no tool, one generate call,
\* the user message and one assistant message with the raw text
FallbackRun ==
    /\ outcome = "returned"
    /\ trace = <<"user", "generate", "assistant">>
    /\ Len(messages) = runStart + 2
    /\ messages[runStart + 1].role = "user"
    /\ messages[runStart + 2] = Message("assistant", response_text, {})

\* C4: when the first response of a run is not parseable as a decision (as
\* for every query without "calculate" under the scripted model), the run
\* executes no tool, calls generate once, and appends after the user message
\* exactly one assistant message holding the raw response text.
C4_ParseFailure ==
    /\ (RunEnded /\ response_text \in UnparseableTexts) => FallbackRun
    /\ (/\ RunEnded /\ llm = "MockLLMProvider"
        /\ Len(messages) > runStart
        /\ messages[runStart + 1] = Message("user", "Hello, who are you?", {}))
       => /\ FallbackRun
          /\ response_text = "I am a simple agent. I can help you with calculations."

\* the fallback path was taken by the scripted model after an earlier run
C4_Witness ==
    /\ RunEnded /\ llm = "MockLLMProvider" /\ runStart > 0
    /\ response_text = "I am a simple agent. I can help you with calculations."
    /\ Last(messages) = Message("assistant", response_text, {})

\* decisions whose tool key is absent, empty, or names a tool that is not in
\* the mapping ts
NoToolTexts(ts) ==
    {"{}", "{\"tool\": \"\"}", "{\"tool\": \"search\"}"}
    \cup (IF "calculator" \in ts THEN {}
          ELSE { "{\"tool\": \"calculator\"}",
                 "{\"tool\": \"calculator\", \"tool_input\": {\"expression\": \"1 / 0\"}}",
                 "{\"thought\": \"The user wants to calculate something. I should use the calculator tool.\", \"tool\": \"calculator\", \"tool_input\": {\"expression\": \"25 * 4\"}}" })

\* C5: when the first response parses as a decision whose tool key is absent,
\* empty or not in the mapping, the run executes no tool and appends nothing
\* but the user message, which is then the last message of Memory; the user
\* message of the following run lands right after it.
C5_NoToolDecision ==
    /\ [](( RunEnded /\ response_text \in NoToolTexts(tools))
          => /\ outcome = "returned"
             /\ trace = <<"user", "generate", "print">>
             /\ Len(messages) = runStart + 1
             /\ Last(messages).role = "user")
    /\ [][( RunEnded /\ response_text \in NoToolTexts(tools) /\ pc' = "think")
          => /\ Len(messages') = Len(messages) + 1
             /\ messages'[Len(messages)].role = "user"
             /\ messages'[Len(messages) + 1].role = "user"]_vars

\* a run was entered right after one that appended nothing for its response
C5_Witness ==
    /\ pc = "think" /\ runs >= 2 /\ runStart >= 1
    /\ messages[runStart].role = "user"
    /\ messages[runStart + 1].role = "user"

\* the orders of phases a run can go through
RunTraces ==
    { <<"user", "generate", "assistant">>,
      <<"user", "generate", "print">>,
      <<"user", "generate", "raise">>,
      <<"user", "generate", "execute", "tool", "generate", "assistant">> }

IsPrefix(p, q) == Len(p) <= Len(q) /\ SubSeq(q, 1, Len(p)) = p

\* C10: a run goes through think, act, observe in this order and never back:
\* the user message precedes the first generate call; a tool is executed at
\* most once, and only for a parsed decision naming a tool of the mapping;
\* the second generate call follows the tool message and its text is appended
\* as the assistant message unparsed.  So every tool message in Memory comes
\* right after a user message and, once the run returned, right before an
\* assistant message.
C10_PhaseOrder ==
    /\ outcome # "none" => \E full \in RunTraces : IsPrefix(trace, full)
    /\ outcome \in {"returned", "raised"} => pc = "idle" /\ trace \in RunTraces
    /\ (outcome # "none" /\ \E k \in 1..Len(trace) : trace[k] = "execute")
       => /\ decision.t = "obj"
          /\ DictGet(decision, "tool", JNull).t = "str"
          /\ DictGet(decision, "tool", JNull).s \in tools
    /\ \A k \in 1..Len(messages) :
          messages[k].role = "tool"
          => /\ k > 1 /\ messages[k - 1].role = "user"
             /\ IF k = Len(messages) THEN pc = "respond"
                ELSE messages[k + 1].role = "assistant"
    /\ (RunEnded /\ Len(trace) = 6)
       => /\ Len(messages) = runStart + 3
          /\ Last(messages).role = "assistant"
          /\ messages[Len(messages) - 1] =
                Message("tool", tool_result, {<<"tool", DictGet(decision, "tool", JNull).s>>})

\* the second response was itself a decision naming the calculator, and the
\* run ended with it as the assistant message
C10_Witness ==
    /\ RunEnded /\ Len(trace) = 6
    /\ Last(messages).role = "assistant"
    /\ Last(messages).content = Dumps(MockDecision)
    /\ messages[Len(messages) - 1].role = "tool"

-----------------------------------------------------------------------------
(* Properties of CalculatorTool.execute (under SpecCalc)                    *)

\* the allow-list as the specification words it
AllowList ==
    {"0", "1", "2", "3", "4", "5", "6", "7", "8", "9",
     "+", "-", "*", "/", "(", ")", ".", " "}

OnlyAllowed(e) == \A i \in 1..Len(e) : Ch(e, i) \in AllowList

\* C6: for every expression holding a character outside the allow-list,
\* execute returns "Error: Invalid characters in expression." and the
\* expression is never evaluated.
C6_InvalidCharacters ==
    (calcOut.called /\ ~OnlyAllowed(calcExpr))
    => /\ calcOut.ret = "Error: Invalid characters in expression."
       /\ ~calcOut.evaluated
       /\ ~calcOut.raised

C6_Witness ==
    /\ calcOut.called /\ calcExpr = "2+2; rm"
    /\ calcOut.ret = "Error: Invalid characters in expression."

\* C7: for every expression of allow-listed characters whose evaluation fails
\* (malformed syntax, the empty text, division by zero, a number called as a
\* function), execute returns a text that begins with "Error executing
\* calculation: " and raises nothing.
C7_EvaluationFailure ==
    (/\ calcOut.called /\ OnlyAllowed(calcExpr)
     /\ \/ calcExpr \in {"2 +", "", "1 / 0", "1 (2)"}
        \/ PyEval(calcExpr).r = "exc")
    => /\ StartsWith(calcOut.ret, "Error executing calculation: ")
       /\ calcOut.evaluated
       /\ ~calcOut.raised

C7_Witness ==
    /\ calcOut.called /\ calcExpr = "1 / 0"
    /\ calcOut.ret = "Error executing calculation: division by zero"

\* Exact arithmetic on the terms, as fractions n/d in lowest terms (d > 0);
\* d = 0 stands for a term that divides by zero.
Rat(n, d) == [n |-> n \div GCD(Abs(n), d), d |-> d \div GCD(Abs(n), d)]
Undefined == [n |-> 0, d |-> 0]

RefApply(op, x, y) ==
    IF x.d = 0 \/ y.d = 0 THEN Undefined
    ELSE CASE op = "+" -> Rat(x.n * y.d + y.n * x.d, x.d * y.d)
           [] op = "-" -> Rat(x.n * y.d - y.n * x.d, x.d * y.d)
           [] op = "*" -> Rat(x.n * y.n, x.d * y.d)
           [] op = "/" -> IF y.n = 0 THEN Undefined
                          ELSE IF y.n < 0 THEN Rat(-(x.n * y.d), x.d * (-y.n))
                          ELSE Rat(x.n * y.d, x.d * y.n)

RefValue(t) ==
    CASE t.shape = "leaf" -> Rat(t.a, 1)
      [] t.shape = "bin" -> RefApply(t.op1, Rat(t.a, 1), Rat(t.b, 1))
      [] t.shape = "left" ->
            RefApply(t.op2, RefApply(t.op1, Rat(t.a, 1), Rat(t.b, 1)), Rat(t.c, 1))
      [] t.shape = "right" ->
            RefApply(t.op1, Rat(t.a, 1), RefApply(t.op2, Rat(t.b, 1), Rat(t.c, 1)))

HasDivision(t) ==
    \/ t.shape \in {"bin", "left", "right"} /\ t.op1 = "/"
    \/ t.shape \in {"left", "right"} /\ t.op2 = "/"

\* the term is one division of terms that hold none
RootDivisionOnly(t) ==
    \/ t.shape = "bin" /\ t.op1 = "/"
    \/ t.shape = "left" /\ t.op2 = "/" /\ t.op1 # "/"
    \/ t.shape = "right" /\ t.op1 = "/" /\ t.op2 # "/"

\* the divisor of such a term
Divisor(t) ==
    CASE t.shape = "bin" -> Rat(t.b, 1)
      [] t.shape = "left" -> Rat(t.c, 1)
      [] t.shape = "right" -> RefApply(t.op2, Rat(t.b, 1), Rat(t.c, 1))

RECURSIVE TenTo(_)
TenTo(k) == IF k = 0 THEN 1 ELSE 10 * TenTo(k - 1)

\* n/d has a finite decimal expansion (d divides a power of ten)
FiniteDecimal(q) == \E k \in 0..9 : TenTo(k) % q.d = 0

RECURSIVE Expansion(_, _)
\* the digits after the point of r/d, for r < d and a finite expansion
Expansion(r, d) ==
    IF r = 0 THEN ""
    ELSE DigitChr((10 * r) \div d) \o Expansion((10 * r) % d, d)

\* the exact decimal text of q: "14", "-3", "0.25", "-1.5"
ExactDecimal(q) ==
    (IF q.n < 0 THEN "-" ELSE "")
        \o NatStr(Abs(q.n) \div q.d)
        \o (IF Abs(q.n) % q.d = 0 THEN "" ELSE "." \o Expansion(Abs(q.n) % q.d, q.d))

\* every text that writes q exactly, with or without a fractional part
ExactTexts(q) ==
    IF ~FiniteDecimal(q) THEN {}
    ELSE IF q.n = 0 THEN {"0", "0.0", "-0.0"}
    ELSE IF q.d = 1 THEN {ExactDecimal(q), ExactDecimal(q) \o ".0"}
    ELSE {ExactDecimal(q)}

\* the term is well formed arithmetic with a value
ValidTerm == calcOut.called /\ calcTree # NoTree /\ RefValue(calcTree).d # 0

\* C8 as stated: every valid expression over + - * / and parentheses gives
\* the exact decimal text of its value under standard precedence.
C8_ExactDecimal == ValidTerm => calcOut.ret \in ExactTexts(RefValue(calcTree))

\* str(float) writes at most 15 significant digits and |q| >= 0.0001 plainly
ShortDecimal(q) ==
    /\ FiniteDecimal(q)
    /\ Abs(q.n) * 10000 >= q.d
    /\ Len(ExactDecimal(q)) <= 15

\* the text of a float that is exactly q, the quotient by divisor
QuotientText(q, divisor) ==
    IF q.n = 0 THEN (IF divisor.n < 0 THEN "-0.0" ELSE "0.0")
    ELSE IF q.d = 1 THEN ExactDecimal(q) \o ".0"
    ELSE ExactDecimal(q)

IntegerText(e) == e # "" /\ \A i \in 1..Len(e) : Ch(e, i) \in Digits \cup {"-"}

\* C8, amended: under standard precedence, a valid expression without "/"
\* gives the exact integer text of its value; one whose only division is its
\* last operation and whose quotient is a short finite decimal gives that
\* decimal with a fractional part ("4 / 2" gives "2.0", a zero quotient "0.0",
\* or "-0.0" over a negative divisor); and no expression with "/" gives an
\* integer text.
C8_Evaluation ==
    ValidTerm
    => /\ calcOut.evaluated /\ ~calcOut.raised
       /\ ~HasDivision(calcTree) => calcOut.ret = ExactDecimal(RefValue(calcTree))
       /\ (RootDivisionOnly(calcTree) /\ ShortDecimal(RefValue(calcTree)))
          => calcOut.ret = QuotientText(RefValue(calcTree), Divisor(calcTree))
       /\ RootDivisionOnly(calcTree) /\ RefValue(calcTree).n = 0
          => calcOut.ret = QuotientText(RefValue(calcTree), Divisor(calcTree))
       /\ HasDivision(calcTree) => ~IntegerText(calcOut.ret)
       /\ calcExpr = "25 * 4" => calcOut.ret = "100"
       /\ calcExpr = "2 + 3 * 4" => calcOut.ret = "14"

\* a parenthesised sum divided: (1 + 2) / 4
C8_Witness ==
    /\ calcOut.called /\ calcTree = Tree("left", 1, "+", 2, "/", 4)
    /\ calcExpr = "(1 + 2) / 4" /\ calcOut.ret = "0.75"

-----------------------------------------------------------------------------
(* Properties of MockLLMProvider.generate (under SpecGen)                   *)

DecisionText ==
    "{\"thought\": \"The user wants to calculate something. I should use the calculator tool.\", \"tool\": \"calculator\", \"tool_input\": {\"expression\": \"25 * 4\"}}"

\* the decision table of the scripted model
TableReply(m) ==
    IF m.role = "user" /\ m.content \in ContentsWithCalculate THEN DecisionText
    ELSE IF m.role = "user" THEN "I am a simple agent. I can help you with calculations."
    ELSE IF m.role = "tool" THEN "The result of the calculation is " \o m.content
    ELSE "I don't know what to do."

\* C9: the scripted model's reply depends on the last message only (two
\* histories ending with the same message get the same text) and follows the
\* decision table: a user message with "calculate" in any case gives the
\* decision naming "calculator" with expression "25 * 4", another user message
\* the capability text, a tool message "The result of the calculation is "
\* and its content, any other role "I don't know what to do.".
C9_LastMessageOnly ==
    genOut # <<>>
    => /\ Last(genA) = Last(genB)
       /\ genOut[1] = genOut[2]
       /\ genOut[1] = TableReply(Last(genA))
       /\ (Last(genA).role = "user" /\ Last(genA).content \in ContentsWithCalculate)
          => /\ json_loads(genOut[1]).r = "ok"
             /\ DictGet(json_loads(genOut[1]).v, "tool", JNull) = JStr("calculator")
             /\ DictGet(json_loads(genOut[1]).v, "tool_input", JNull)
                   = JObj(<<Pair("expression", JStr("25 * 4"))>>)

\* two different histories ending with the same tool message
C9_Witness ==
    /\ genOut # <<>> /\ Len(genA) # Len(genB) /\ genA[1] # genB[1]
    /\ Last(genA) = Message("tool", "100", {<<"tool", "calculator">>})
    /\ genOut[2] = "The result of the calculation is 100"

=============================================================================
